---- MODULE Spec2Model ----
(***************************************************************************)
(* Presence-tracked message dispatch of the messenger server.              *)
(*                                                                         *)
(* The repository holds three snapshots of the server:                     *)
(*   "sqlite" : src/unnamed/part_000   (SQLite, push only)                 *)
(*   "pg1"    : src/server.js 1-166    (PostgreSQL, first version)         *)
(*   "pg2"    : src/server.js 169-368  (PostgreSQL, current version)       *)
(* The variable snapshot selects the one that is running.                  *)
(***************************************************************************)
EXTENDS Integers, Sequences, FiniteSets, TLC

\* ---------------------------------------------------------------- bounds
NumConns == 2          \* socket.io connections that may ever be opened
MaxSends == 1          \* send_message events racing with logins and disconnects
MaxOrderSends == 2     \* send_message events racing with each other in the store
MaxClock == 1          \* largest value of the store's clock
MaxHttp == 3           \* calls of the friends routes that may be made

\* ------------------------------------------------------ values of the code
NumUsers == 2          \* rows of the users table (ids are SERIAL: 1, 2, ...)
Undefined == -2        \* JavaScript undefined (a missing payload field)
NaN == -1              \* Number(undefined)
None == 0              \* no socket id (onlineUsers[k] is undefined)

Snapshots == {"sqlite", "pg1", "pg2"}
Conns == 1..NumConns                  \* socket.id values
Users == 1..NumUsers                  \* ids present in the users table
Ghost == NumUsers + 1                 \* an id with no users row
Texts == {1, 2}                       \* message texts

\* Number(x) for the payload values that occur
Number(x) == IF x = Undefined THEN NaN ELSE x

\* JavaScript truthiness of a payload value (0, NaN and undefined are falsy)
Truthy(x) == x # 0 /\ x # NaN /\ x # Undefined

\* user ids a client may put in a login event
LoginInputs == {0} \cup Users

\* send_message payloads a client may send
Payloads ==
  { [toUserId |-> 2, fromUserId |-> 1, text |-> 1],
    [toUserId |-> 1, fromUserId |-> 2, text |-> 2],
    [toUserId |-> 2, fromUserId |-> Undefined, text |-> 1],
    [toUserId |-> 2, fromUserId |-> 1, text |-> Undefined],
    [toUserId |-> Ghost, fromUserId |-> 1, text |-> 1] }

VARIABLES
  snapshot,      \* which snapshot of the server is running
  conn,          \* conn[c] : "new" (not yet connected), "open", "closed"
  onlineUsers,   \* the presence registry: key -> socket id (bound keys only)
  sends,         \* send_message handlers in the order the dispatcher got them
  messages,      \* rows of the messages table, in insertion order
  msgSeq,        \* last value of messages_id_seq
  clock,         \* the store's CURRENT_TIMESTAMP at its last insert
  emitted,       \* receive_message events emitted, in order
  friends,       \* rows of the friends table
  friendSeq,     \* last value of friends_id_seq
  httpLog,       \* calls of the friends routes with their responses, in order
  superseded,    \* history: <<c, k>> when another socket's login took key k from c
  client,        \* history: the user whose client sent the latest accept request
  storedUserId   \* history: the key socket c bound most recently (Undefined: none)

vars == <<snapshot, conn, onlineUsers, sends, messages, msgSeq, clock,
          emitted, friends, friendSeq, httpLog, superseded, storedUserId,
          client>>

socketVars == <<conn, onlineUsers, sends, messages, msgSeq, clock, emitted, superseded,
                storedUserId>>
friendVars == <<friends, friendSeq, httpLog, client>>

\* ------------------------------------------------------- presence registry

\* onlineUsers[k] as JavaScript reads it: undefined for an absent key
lookup(k) == IF k \in DOMAIN onlineUsers THEN onlineUsers[k] ELSE None

\* onlineUsers[k] = sid
bind(reg, k, sid) == [x \in (DOMAIN reg) \cup {k} |-> IF x = k THEN sid ELSE reg[x]]

\* delete onlineUsers[k]
delete(reg, ks) == [x \in (DOMAIN reg) \ ks |-> reg[x]]

\* mutant: the scan without its test onlineUsers[id] === socket.id
keysOfAny(reg, sid) == DOMAIN reg

\* keys whose entry holds the socket id
keysOf(reg, sid) == {k \in DOMAIN reg : reg[k] = sid}

\* first key for..in visits among ks (integer-like keys ascend)
firstKey(ks) == CHOOSE k \in ks : \A j \in ks : k <= j

\* the keys the disconnect handler deletes
disconnectKeys(reg, sid) ==
  IF keysOf(reg, sid) = {} THEN {}
  ELSE IF snapshot = "pg1" THEN keysOf(reg, sid)       \* no break
  ELSE {firstKey(keysOf(reg, sid))}                    \* break after one

\* if (!userId) return;  (pg2 only)
loginBinds(userId) == snapshot # "pg2" \/ Truthy(userId)

\* the key the login handler binds: Number(userId) in pg2, userId before
loginKey(userId) == IF snapshot = "pg2" THEN Number(userId) ELSE userId

Init ==
  /\ snapshot \in Snapshots
  /\ conn = [c \in Conns |-> "new"]
  /\ onlineUsers = << >>
  /\ sends = << >>
  /\ messages = << >>
  /\ msgSeq = 0
  /\ clock = 0
  /\ emitted = << >>
  /\ friends = {}
  /\ friendSeq = 0
  /\ httpLog = << >>
  /\ superseded = {}
  /\ storedUserId = [c \in Conns |-> Undefined]
  /\ client = None

\* history of a login event of socket c with userId: the socket that held
\* the key, if another one, is superseded for it, and c no longer is
LoginHistory(c, userId) ==
  superseded' =
    IF ~loginBinds(userId) THEN superseded
    ELSE (superseded \ {<<c, loginKey(userId)>>})
           \cup (IF lookup(loginKey(userId)) \notin {None, c}
                   THEN {<<lookup(loginKey(userId)), loginKey(userId)>>} ELSE {})

\* history of a login event of socket c with userId: the key it binds is
\* remembered as the socket's most recent one
LoginStores(c, userId) ==
  storedUserId' =
    IF ~loginBinds(userId) THEN storedUserId
    ELSE [storedUserId EXCEPT ![c] = loginKey(userId)]

\* io.on('connection'): the socket's handlers are registered
Connect(c) ==
  /\ conn[c] = "new"
  /\ conn' = [conn EXCEPT ![c] = "open"]
  /\ UNCHANGED <<snapshot, onlineUsers, sends, messages, msgSeq, clock, emitted>>
  /\ UNCHANGED <<friendVars, superseded, storedUserId>>

\* socket.on('login')
Login(c, userId) ==
  /\ conn[c] = "open"
  /\ onlineUsers' = IF loginBinds(userId)
                      THEN bind(onlineUsers, loginKey(userId), c)
                      ELSE onlineUsers
  /\ UNCHANGED <<snapshot, conn, sends, messages, msgSeq, clock, emitted>>
  /\ UNCHANGED friendVars

\* socket.on('disconnect'): the socket has left its rooms, then the scan runs
Disconnect(c) ==
  /\ conn[c] = "open"
  /\ conn' = [conn EXCEPT ![c] = "closed"]
  /\ onlineUsers' = delete(onlineUsers, disconnectKeys(onlineUsers, c))
  /\ UNCHANGED <<snapshot, sends, messages, msgSeq, clock, emitted>>
  /\ UNCHANGED <<friendVars, superseded, storedUserId>>

\* ------------------------------------------------------------ the store
Null == -3             \* SQL NULL (node-postgres sends undefined as NULL)

\* a query parameter as node-postgres sends it
pgParam(x) == IF x = Undefined THEN Null ELSE x

\* an INTEGER parameter the server can parse ("NaN" is not an integer)
integerOk(x) == x # NaN

\* REFERENCES users(id): NULL is not checked
fkOk(x) == x = Null \/ x \in Users

\* CURRENT_TIMESTAMP values the store may assign to the next insert
timestamps == clock..MaxClock

\* the row INSERT INTO messages (sender_id, receiver_id, text) builds
messageRow(h, t) ==
  [id |-> msgSeq + 1,
   sender_id |-> pgParam(sends[h].from),
   receiver_id |-> pgParam(sends[h].to),
   text |-> pgParam(sends[h].text),
   created_at |-> t,
   h |-> h]

\* the send_message handler's conversion of an id of the payload
convertId(x) == IF snapshot = "pg2" THEN Number(x) ELSE x

\* the handler a send_message event starts
newSend(c, data) ==
  [sock |-> c,
   data |-> data,
   from |-> convertId(data.fromUserId),
   to |-> convertId(data.toUserId),
   text |-> data.text,
   bound0 |-> lookup(convertId(data.toUserId)),
   boundAs |-> keysOf(onlineUsers, c),
   pc |-> IF snapshot = "sqlite" THEN "done" ELSE "await"]

\* mutant: the recipient's socket read before the await
recipientAtDispatch(s) == s.bound0

\* const recipientSocketId = onlineUsers[to]
recipientSocketId(s) == lookup(s.to)

\* mutant: an event addressed to a room always reaches a socket
pushEventsAlwaysHeard(h, s) ==
  IF recipientSocketId(s) # None
    THEN << [h |-> h, name |-> "receive_message",
             room |-> recipientSocketId(s), from |-> s.from,
             text |-> s.text, heard |-> TRUE] >>
    ELSE << >>

\* io.to(recipientSocketId).emit('receive_message', { from, text }): the
\* events emitted for handler h of record s; heard tells whether the room of
\* that socket id still has its socket
pushEvents(h, s) ==
  IF recipientSocketId(s) # None
    THEN << [h |-> h, name |-> "receive_message",
             room |-> recipientSocketId(s), from |-> s.from,
             text |-> s.text, heard |-> conn[recipientSocketId(s)] = "open"] >>
    ELSE << >>

\* socket.on('send_message'), up to the await (pg) or to its end (sqlite)
SendMessage(c, data) ==
  /\ conn[c] = "open"
  /\ sends' = Append(sends, newSend(c, data))
  /\ emitted' = IF snapshot = "sqlite"
                  THEN emitted \o pushEvents(Len(sends) + 1, newSend(c, data))
                  ELSE emitted
  /\ UNCHANGED <<snapshot, conn, onlineUsers, messages, msgSeq, clock>>
  /\ UNCHANGED <<friendVars, superseded, storedUserId>>

\* the store executes the INSERT of handler h
StoreInsert(h, t) ==
  /\ sends[h].pc = "await"
  /\ t \in timestamps
  /\ IF ~(integerOk(sends[h].from) /\ integerOk(sends[h].to))
       THEN /\ sends' = [sends EXCEPT ![h].pc = "failed"]
            /\ UNCHANGED <<messages, msgSeq, clock>>
       ELSE /\ msgSeq' = msgSeq + 1
            /\ clock' = t
            /\ IF fkOk(pgParam(sends[h].from)) /\ fkOk(pgParam(sends[h].to))
                 THEN /\ messages' = Append(messages, messageRow(h, t))
                      /\ sends' = [sends EXCEPT ![h].pc = "stored"]
                 ELSE /\ sends' = [sends EXCEPT ![h].pc = "failed"]
                      /\ UNCHANGED messages
  /\ UNCHANGED <<snapshot, conn, onlineUsers, emitted>>
  /\ UNCHANGED <<friendVars, superseded, storedUserId>>

\* the store cannot be reached: pool.query rejects
StoreUnavailable(h) ==
  /\ sends[h].pc = "await"
  /\ sends' = [sends EXCEPT ![h].pc = "failed"]
  /\ UNCHANGED <<snapshot, conn, onlineUsers, messages, msgSeq, clock, emitted>>
  /\ UNCHANGED <<friendVars, superseded, storedUserId>>

\* mutant: the push step waits until the recipient is bound to an open socket
PushWhenOnline(h) ==
  /\ sends[h].pc = "stored"
  /\ lookup(sends[h].to) # None
  /\ conn[lookup(sends[h].to)] = "open"
  /\ emitted' = emitted \o pushEvents(h, sends[h])
  /\ sends' = [sends EXCEPT ![h].pc = "done"]
  /\ UNCHANGED <<snapshot, conn, onlineUsers, messages, msgSeq, clock>>
  /\ UNCHANGED <<friendVars, superseded, storedUserId>>

\* the handler resumes after the await: the push step
Push(h) ==
  /\ sends[h].pc = "stored"
  /\ emitted' = emitted \o pushEvents(h, sends[h])
  /\ sends' = [sends EXCEPT ![h].pc = "done"]
  /\ UNCHANGED <<snapshot, conn, onlineUsers, messages, msgSeq, clock>>
  /\ UNCHANGED <<friendVars, superseded, storedUserId>>

\* the events the catch block emits for handler h: console.error only
catchEmits(h) == << >>

\* the handler resumes after the await with the query's error: pg2 catches
\* and logs it, pg1 has no try and its promise rejects
Catch(h) ==
  /\ sends[h].pc = "failed"
  /\ sends' = [sends EXCEPT ![h].pc = IF snapshot = "pg2" THEN "caught" ELSE "rejected"]
  /\ emitted' = emitted \o catchEmits(h)
  /\ UNCHANGED <<snapshot, conn, onlineUsers, messages, msgSeq, clock>>
  /\ UNCHANGED <<friendVars, superseded, storedUserId>>

\* SQL equality: never true of NULL
sqlEq(x, y) == x # Null /\ y # Null /\ x = y

\* WHERE (sender_id = $1 AND receiver_id = $2) OR (sender_id = $2 AND receiver_id = $1)
between(r, a, b) ==
  \/ sqlEq(r.sender_id, a) /\ sqlEq(r.receiver_id, b)
  \/ sqlEq(r.sender_id, b) /\ sqlEq(r.receiver_id, a)

\* positions in the table of the rows the WHERE clause selects
selected(table, a, b) == {i \in DOMAIN table : between(table[i], a, b)}

\* ORDER BY created_at ASC; the order of rows with equal created_at is
\* whatever the store produces
ascending(table, s) ==
  \A i, j \in DOMAIN s : i < j => table[s[i]].created_at <= table[s[j]].created_at

\* the query of app.get('/messages') on a table: its possible results
selectMessages(table, a, b) ==
  LET sel == selected(table, a, b)
      n == Cardinality(sel)
  IN { [i \in 1..n |-> table[s[i]]] :
         s \in {q \in [1..n -> sel] :
                  /\ \A i, j \in 1..n : i # j => q[i] # q[j]
                  /\ ascending(table, q)} }

\* app.get('/messages'): the responses the route may give for (myId, userId)
\* on a table; a query error is answered with []
messagesRoute(table, myId, userId) ==
  IF ~(integerOk(convertId(myId)) /\ integerOk(convertId(userId)))
    THEN { << >> }
    ELSE selectMessages(table, pgParam(convertId(myId)), pgParam(convertId(userId)))

\* the responses on the current table
listMessages(myId, userId) == messagesRoute(messages, myId, userId)

\* ------------------------------------------------------------- friends

\* ids a client may put in the body of a friends request
FriendInputs == Users \cup {Ghost, Undefined}

\* mutant: uniqueness of the unordered pair
uniqueOkUnordered(u, f) ==
  u = Null \/ f = Null
    \/ ~\E r \in friends : \/ r.user_id = u /\ r.friend_id = f
                           \/ r.user_id = f /\ r.friend_id = u

\* UNIQUE(user_id, friend_id): NULLs never collide
uniqueOk(u, f) ==
  u = Null \/ f = Null \/ ~\E r \in friends : r.user_id = u /\ r.friend_id = f

\* INSERT INTO friends (user_id, friend_id) VALUES ($1, $2) succeeds
friendInsertOk(u, f) ==
  /\ integerOk(u) /\ integerOk(f)
  /\ fkOk(pgParam(u)) /\ fkOk(pgParam(f))
  /\ uniqueOk(pgParam(u), pgParam(f))

\* the row the INSERT builds (status DEFAULT 'pending')
friendRow(u, f) ==
  [id |-> friendSeq + 1, user_id |-> pgParam(u), friend_id |-> pgParam(f),
   status |-> "pending"]

\* history of an accept request: the user operating the client that sent
\* it; the route reads no identity of the caller
SentBy(by) == client' = by

\* app.post('/friends/request')
FriendsRequest(fromId, toId) ==
  /\ snapshot # "sqlite"
  /\ LET u == convertId(fromId)
         f == convertId(toId)
     IN /\ friends' = IF friendInsertOk(u, f)
                        THEN friends \cup {friendRow(u, f)} ELSE friends
        /\ friendSeq' = IF integerOk(u) /\ integerOk(f)
                          THEN friendSeq + 1 ELSE friendSeq
        /\ httpLog' = Append(httpLog,
                        [route |-> "request", a |-> fromId, b |-> toId,
                         status |-> IF friendInsertOk(u, f) THEN 200 ELSE 400])
  /\ UNCHANGED snapshot
  /\ UNCHANGED socketVars

\* SELECT ... WHERE f.friend_id = $1 AND f.status = 'pending'
pendingRequests(userId) ==
  {r \in friends : r.friend_id = userId /\ r.status = "pending"}

\* UPDATE friends SET status = 'accepted' WHERE id = $1
acceptUpdate(requestId) ==
  {IF r.id = requestId THEN [r EXCEPT !.status = "accepted"] ELSE r : r \in friends}

\* app.post('/friends/accept')
FriendsAccept(requestId) ==
  /\ snapshot # "sqlite"
  /\ friends' = IF integerOk(convertId(requestId))
                  THEN acceptUpdate(convertId(requestId)) ELSE friends
  /\ httpLog' = Append(httpLog,
                  [route |-> "accept", a |-> requestId, b |-> None,
                   status |-> IF snapshot = "pg2" /\ ~integerOk(convertId(requestId))
                                THEN 500 ELSE 200])
  /\ UNCHANGED <<snapshot, friendSeq>>
  /\ UNCHANGED socketVars

\* ------------------------------------------------------------- claims

\* reg[k] as JavaScript reads it
entry(reg, k) == IF k \in DOMAIN reg THEN reg[k] ELSE None

\* the step is the disconnect of socket c
Disconnects(c) == conn[c] = "open" /\ conn'[c] = "closed"

\* keys a login may bind
Keys == {0} \cup Users

\* C1: when a socket c whose binding of key k was superseded by a later
\* login of another socket disconnects, the registry entry of k is left as
\* it was: the newer binding is not evicted.
C1_StaleDisconnectKeepsNewer ==
  [][\A c \in Conns, k \in Keys :
       (<<c, k>> \in superseded /\ Disconnects(c))
         => entry(onlineUsers', k) = entry(onlineUsers, k)]_vars

\* C1 witness: a superseded socket has disconnected and the key is still
\* bound to another, open socket
C1_Witness ==
  \E c \in Conns, k \in Keys :
    /\ <<c, k>> \in superseded
    /\ conn[c] = "closed"
    /\ lookup(k) \notin {None, c}
    /\ conn[lookup(k)] = "open"

\* the step ends the try block of handler h: its push step has run
PushStep(h) ==
  /\ h \in DOMAIN sends'
  /\ sends'[h].pc = "done"
  /\ (h \in DOMAIN sends => sends[h].pc # "done")

\* events emitted for handler h
eventsOf(h) == {i \in DOMAIN emitted : emitted[i].h = h}

\* rows inserted by handler h
rowsOf(h) == {i \in DOMAIN messages : messages[i].h = h}

\* C2: a login binds its key to the socket that logged in, replacing any
\* socket bound before, and a push step addresses only the socket that the
\* registry holds for the recipient when the step runs: at most one event,
\* exactly one when there is an entry, never a socket bound earlier.
C2_PushGoesToCurrentBinding ==
  [][/\ \A c \in Conns, u \in LoginInputs :
          (Login(c, u) /\ loginBinds(u)) => entry(onlineUsers', loginKey(u)) = c
     /\ \A h \in DOMAIN sends' :
          PushStep(h) =>
            /\ \A i \in (Len(emitted) + 1)..Len(emitted') :
                 emitted'[i].room = entry(onlineUsers, sends'[h].to)
            /\ Len(emitted') = Len(emitted) +
                 (IF entry(onlineUsers, sends'[h].to) # None THEN 1 ELSE 0)]_vars

\* C2 witness: in the current snapshot a message was dispatched while its
\* recipient was bound to one socket, the recipient logged in on another
\* socket before the push, and the event went to the new socket while the
\* old one is still open
C2_Witness ==
  /\ snapshot = "pg2"
  /\ \E h \in DOMAIN sends : \E i \in eventsOf(h) :
       /\ sends[h].bound0 \notin {None, emitted[i].room}
       /\ conn[sends[h].bound0] = "open"
       /\ emitted[i].heard
       /\ lookup(sends[h].to) = emitted[i].room

\* C3 (as claimed): every emitted receive_message has a stored row of its
\* send_message with the same sender, receiver and text, and a handler whose
\* insert failed has emitted nothing.
C3_PushOnlyAfterInsert ==
  /\ \A i \in DOMAIN emitted :
       \E j \in rowsOf(emitted[i].h) :
         /\ messages[j].sender_id = pgParam(emitted[i].from)
         /\ messages[j].receiver_id = pgParam(sends[emitted[i].h].to)
         /\ messages[j].text = pgParam(emitted[i].text)
  /\ \A h \in DOMAIN sends :
       sends[h].pc \in {"failed", "caught", "rejected"} => eventsOf(h) = {}

\* C4 (as claimed): in the current snapshot, a dispatch that completed and
\* whose recipient was bound when the event was dispatched has emitted
\* exactly one event, to the socket bound at that time, which received it.
C4_BoundAtDispatchGetsOne ==
  snapshot = "pg2" =>
    \A h \in DOMAIN sends :
      (sends[h].pc = "done" /\ sends[h].bound0 # None) =>
        /\ Cardinality(eventsOf(h)) = 1
        /\ \A i \in eventsOf(h) :
             /\ emitted[i].room = sends[h].bound0
             /\ emitted[i].heard
             /\ emitted[i].from = sends[h].from
             /\ emitted[i].text = sends[h].text

\* C5 (as claimed): in the current snapshot, a dispatch that completed and
\* whose recipient had no registry entry when the event was dispatched has
\* emitted nothing and has its row stored.
C5_UnboundAtDispatchGetsNone ==
  snapshot = "pg2" =>
    \A h \in DOMAIN sends :
      (sends[h].pc = "done" /\ sends[h].bound0 = None) =>
        /\ eventsOf(h) = {}
        /\ rowsOf(h) # {}

\* a payload with both ids of existing users and a text
validPayload(d) ==
  d.fromUserId \in Users /\ d.toUserId \in Users /\ d.text \in Texts

\* the row carries the payload's sender, receiver and text
carries(r, d) ==
  r.sender_id = d.fromUserId /\ r.receiver_id = d.toUserId /\ r.text = d.text

\* C6 (as claimed): in the current snapshot, when the dispatch of a valid
\* payload completes, every response of listMessages(senderId, receiverId)
\* ends with a row carrying exactly that sender, receiver and text.
C6_LastEntryAtCompletion ==
  [][snapshot = "pg2" =>
       \A h \in DOMAIN sends' :
         (PushStep(h) /\ validPayload(sends'[h].data)) =>
           \A r \in messagesRoute(messages', sends'[h].data.fromUserId,
                                   sends'[h].data.toUserId) :
             /\ Len(r) > 0
             /\ carries(r[Len(r)], sends'[h].data)]_vars

\* C7 (as claimed): in the current snapshot, every response of listMessages
\* lists the rows of any two send_message events in the order in which the
\* dispatcher received the events.
C7_ReadBackInDispatchOrder ==
  snapshot = "pg2" =>
    \A a, b \in Users : \A r \in listMessages(a, b) :
      \A i, j \in DOMAIN r : i < j => r[i].h < r[j].h

\* C8 (as claimed): in the current snapshot, listMessages(A, B) and
\* listMessages(B, A) respond with the same sequence, which holds exactly the
\* rows sent in either direction between A and B.
C8_ArgumentOrderIrrelevant ==
  snapshot = "pg2" =>
    \A a, b \in Users :
      \A r1 \in listMessages(a, b), r2 \in listMessages(b, a) :
        /\ r1 = r2
        /\ {r1[i] : i \in DOMAIN r1} =
             {m \in {messages[i] : i \in DOMAIN messages} :
                \/ m.sender_id = a /\ m.receiver_id = b
                \/ m.sender_id = b /\ m.receiver_id = a}
        /\ Len(r1) = Cardinality(selected(messages, a, b))

\* the friends table has an edge from u to f
edge(table, u, f) == \E r \in table : r.user_id = u /\ r.friend_id = f

\* the step is a call of POST /friends/request with body (a, b)
RequestStep(a, b) ==
  /\ Len(httpLog') = Len(httpLog) + 1
  /\ httpLog'[Len(httpLog')].route = "request"
  /\ httpLog'[Len(httpLog')].a = a
  /\ httpLog'[Len(httpLog')].b = b

\* C9: a friend request A->B made while an A->B edge exists is answered
\* with the duplicate error (400) and leaves the friends table unchanged; a
\* request B->A between existing users with no B->A edge yet is answered
\* with success and adds exactly the pending edge B->A, whether or not an
\* A->B edge exists.
C9_DuplicateFailsReverseSucceeds ==
  [][\A a, b \in Users :
       /\ (RequestStep(a, b) /\ edge(friends, a, b)) =>
            /\ friends' = friends
            /\ httpLog'[Len(httpLog')].status = 400
       /\ (RequestStep(b, a) /\ ~edge(friends, b, a)) =>
            /\ httpLog'[Len(httpLog')].status = 200
            /\ \E r \in friends' :
                 /\ r.user_id = b /\ r.friend_id = a /\ r.status = "pending"
                 /\ r \notin friends
                 /\ friends' = friends \cup {r}]_vars

\* C9 witness: an A->B edge exists, a repeated A->B request was refused and
\* a later B->A request was accepted into the table
C9_Witness ==
  \E a, b \in Users :
    /\ a # b
    /\ \E r1, r2 \in friends :
         /\ r1.user_id = a /\ r1.friend_id = b
         /\ r2.user_id = b /\ r2.friend_id = a
         /\ r1.id < r2.id
    /\ \E i, j \in DOMAIN httpLog :
         /\ i < j
         /\ httpLog[i] = [route |-> "request", a |-> a, b |-> b, status |-> 400]
         /\ httpLog[j] = [route |-> "request", a |-> b, b |-> a, status |-> 200]

\* a payload with a missing id or a missing text
malformed(d) ==
  d.fromUserId = Undefined \/ d.toUserId = Undefined \/ d.text = Undefined

\* the handler has called pool.query with its INSERT
queryIssued(h) == snapshot # "sqlite"

\* C10 (as claimed): in the current snapshot, for a send_message whose
\* payload lacks an id or the text no insert is attempted, no row is stored
\* and no receive_message is emitted.
C10_MalformedRejectedBeforeStore ==
  snapshot = "pg2" =>
    \A h \in DOMAIN sends :
      malformed(sends[h].data) =>
        /\ ~queryIssued(h)
        /\ rowsOf(h) = {}
        /\ eventsOf(h) = {}

\* an event other than receive_message was emitted to the socket that sent
\* the send_message of handler h
senderNotified(h) ==
  \E i \in eventsOf(h) :
    emitted[i].name # "receive_message" /\ emitted[i].room = sends[h].sock

\* C11 (as claimed): in the PostgreSQL snapshots, a dispatch whose insert
\* failed and whose handler has ended has no row stored, has pushed no
\* receive_message, and its failure was reported to the sending socket.
C11_FailureReportedToSender ==
  snapshot # "sqlite" =>
    \A h \in DOMAIN sends :
      sends[h].pc \in {"caught", "rejected"} =>
        /\ rowsOf(h) = {}
        /\ \A i \in eventsOf(h) : emitted[i].name # "receive_message"
        /\ senderNotified(h)

\* keys the step removes from the registry
removedKeys == (DOMAIN onlineUsers) \ (DOMAIN onlineUsers')

\* C12 (as claimed): a disconnect removes at most one registry entry, also
\* when the disconnecting socket is bound under several keys.
C12_DisconnectRemovesAtMostOne ==
  [][\A c \in Conns : Disconnects(c) => Cardinality(removedKeys) <= 1]_vars

\* unbindIfMatches(userId, connectionHandle) of the design: the entry of
\* userId is removed only when it holds the handle
unbindIfMatches(reg, userId, sid) ==
  IF entry(reg, userId) = sid THEN delete(reg, {userId}) ELSE reg

\* C13 (as claimed): in the current snapshot, a disconnect leaves the
\* registry as unbindIfMatches(storedUserId, handle) would, storedUserId
\* being the key the socket bound most recently.
C13_ScanEqualsUnbindIfMatches ==
  [][snapshot = "pg2" =>
       \A c \in Conns :
         Disconnects(c) =>
           onlineUsers' = unbindIfMatches(onlineUsers, storedUserId[c], c)]_vars

\* C13 (amended): a disconnect of a socket that holds no registry entry
\* other than the one of the key it bound most recently leaves the registry
\* as unbindIfMatches(storedUserId, handle) would.
C13_ScanEqualsUnbindForSingleKey ==
  [][\A c \in Conns :
       (Disconnects(c) /\ keysOf(onlineUsers, c) \subseteq {storedUserId[c]}) =>
         onlineUsers' = unbindIfMatches(onlineUsers, storedUserId[c], c)]_vars

\* C13 witness: a socket that had logged in has disconnected, its key is
\* gone and another socket's binding is still there
C13_Witness ==
  \E c \in Conns :
    /\ conn[c] = "closed"
    /\ storedUserId[c] # Undefined
    /\ lookup(storedUserId[c]) = None
    /\ keysOf(onlineUsers, c) = {}
    /\ \E k \in DOMAIN onlineUsers : conn[onlineUsers[k]] = "open"


\* the registry entries of reg that do not hold socket sid
othersOf(reg, sid) == {k \in DOMAIN reg : reg[k] # sid}

\* C14: a disconnect of socket c leaves every registry entry whose handle
\* is not c as it was and adds none, and the disconnect of a socket that
\* never bound a key leaves the whole registry unchanged.
C14_DisconnectFrame ==
  [][\A c \in Conns :
       Disconnects(c) =>
         /\ \A k \in othersOf(onlineUsers, c) : entry(onlineUsers', k) = onlineUsers[k]
         /\ DOMAIN onlineUsers' \subseteq DOMAIN onlineUsers
         /\ storedUserId[c] = Undefined => onlineUsers' = onlineUsers]_vars

\* C14 witness: a socket that never bound a key has disconnected while the
\* registry held a binding of another, still open, socket
C14_Witness ==
  \E c \in Conns :
    /\ conn[c] = "closed"
    /\ storedUserId[c] = Undefined
    /\ \E k \in DOMAIN onlineUsers : conn[onlineUsers[k]] = "open"


\* the step resumes handler h after its insert succeeded
ResumesStored(h) ==
  /\ h \in DOMAIN sends
  /\ sends[h].pc = "stored"
  /\ sends'[h].pc # "stored"

\* the registry entry of key k holds the id of a socket that has closed
dangling(k) == lookup(k) # None /\ conn[lookup(k)] = "closed"

\* C15: when the push step of a dispatch finds a registry entry that holds
\* a closed socket, the message row is stored, the one event emitted is
\* addressed to that socket's room and no socket receives it, the handler
\* ends normally (nothing thrown, nothing sent to the sender), and the step
\* touches neither the sockets nor the registry, so later events are served.
C15_PushToDeadHandleIsSilent ==
  [][\A h \in DOMAIN sends :
       (ResumesStored(h) /\ dangling(sends[h].to)) =>
         /\ rowsOf(h) # {}
         /\ messages' = messages
         /\ Len(emitted') = Len(emitted) + 1
         /\ emitted'[Len(emitted')].room = lookup(sends[h].to)
         /\ ~emitted'[Len(emitted')].heard
         /\ sends'[h].pc = "done"
         /\ conn' = conn /\ onlineUsers' = onlineUsers]_vars

\* C15 witness: in the current snapshot a dispatch has ended normally with
\* its row stored and its only event addressed to a closed socket, unheard,
\* while the sending socket is still open
C15_Witness ==
  /\ snapshot = "pg2"
  /\ \E h \in DOMAIN sends :
       /\ sends[h].pc = "done"
       /\ rowsOf(h) # {}
       /\ conn[sends[h].sock] = "open"
       /\ Cardinality(eventsOf(h)) = 1
       /\ \A i \in eventsOf(h) :
            ~emitted[i].heard /\ conn[emitted[i].room] = "closed"


\* the handler h has started / has ended (try block left, error caught, or
\* promise rejected)
started(h) == h \in DOMAIN sends
completed(h) == started(h) /\ sends[h].pc \in {"done", "caught", "rejected"}

\* C16: every send_message handler that starts eventually ends, given only
\* that the store answers each insert and the continuation then runs;
\* nothing is assumed about the other sockets, which may log in, disconnect
\* or stay silent meanwhile.
C16_StartedHandlerCompletes ==
  \A h \in 1..MaxSends : started(h) ~> completed(h)

\* C16 witness: a handler has ended after its sending socket and the socket
\* its recipient was bound to at dispatch have both closed
C16_Witness ==
  \E h \in DOMAIN sends :
    /\ completed(h)
    /\ conn[sends[h].sock] = "closed"
    /\ sends[h].bound0 # None
    /\ conn[sends[h].bound0] = "closed"
    /\ sends[h].bound0 # sends[h].sock


\* the step changes the status of the friends row r
statusChanges(r) ==
  \E r2 \in friends' : r2.id = r.id /\ r2.status # r.status

\* C17 (as claimed): in the current snapshot, a step changes the status of
\* a friend edge only from pending to accepted, and only when the request
\* comes from the client of the edge's target user; rows are never removed.
C17_OnlyTargetAccepts ==
  [][snapshot = "pg2" =>
       \A r \in friends :
         /\ \E r2 \in friends' : r2.id = r.id
         /\ statusChanges(r) =>
              /\ r.status = "pending"
              /\ [r EXCEPT !.status = "accepted"] \in friends'
              /\ client' = r.friend_id]_vars


\* C18 (as claimed): in the current snapshot no registry entry holds the id
\* of a closed socket, whatever keys the socket had logged in under.
C18_NoEntryOfClosedSocket ==
  snapshot = "pg2" =>
    \A k \in DOMAIN onlineUsers : conn[onlineUsers[k]] # "closed"


\* the events of handlers h1 and h2 were emitted to one socket, which
\* received both, that of h1 first
emittedBefore(h1, h2) ==
  \E i \in eventsOf(h1), j \in eventsOf(h2) :
    /\ i < j
    /\ emitted[i].room = emitted[j].room
    /\ emitted[i].heard /\ emitted[j].heard

\* every response of the messages route that lists the rows of h1 and h2
\* lists that of h1 first
listedBefore(h1, h2) ==
  \A a, b \in Users : \A r \in listMessages(a, b) :
    \A x, y \in DOMAIN r : (r[x].h = h1 /\ r[y].h = h2) => x < y

\* C19 (as claimed): in the current snapshot, of two messages to the same
\* recipient, bound to one socket throughout, the one whose receive_message
\* was emitted first is listed first in the stored history.
C19_EmitOrderIsHistoryOrder ==
  snapshot = "pg2" =>
    \A h1, h2 \in DOMAIN sends :
      (sends[h1].to = sends[h2].to /\ emittedBefore(h1, h2)) => listedBefore(h1, h2)


\* the sender id of handler h is a key the sending socket was bound under
\* when the send_message event was dispatched
sentUnderOwnId(h) == sends[h].from \in sends[h].boundAs

\* C20 (as claimed): in the current snapshot, every stored row and every
\* emitted receive_message carries as sender a user id that the sending
\* socket was bound under in the registry when it sent the message.
C20_SenderIsBoundId ==
  snapshot = "pg2" =>
    /\ \A i \in DOMAIN messages : sentUnderOwnId(messages[i].h)
    /\ \A i \in DOMAIN emitted :
         emitted[i].name = "receive_message" => sentUnderOwnId(emitted[i].h)



\* the whole socket layer; MaxSends bounds the send_message events
Next ==
  \/ \E c \in Conns : Connect(c)
  \/ \E c \in Conns, u \in LoginInputs : Login(c, u) /\ UNCHANGED <<superseded, storedUserId>>
  \/ \E c \in Conns : Disconnect(c)
  \/ \E c \in Conns, d \in Payloads : Len(sends) < MaxSends /\ SendMessage(c, d)
  \/ \E h \in DOMAIN sends, t \in 0..MaxClock : StoreInsert(h, t)
  \/ \E h \in DOMAIN sends : StoreUnavailable(h)
  \/ \E h \in DOMAIN sends : Push(h)
  \/ \E h \in DOMAIN sends : Catch(h)

Spec == Init /\ [][Next]_vars

\* the store answers the insert of handler h
Answer(h) ==
  /\ h \in DOMAIN sends
  /\ \/ \E t \in 0..MaxClock : StoreInsert(h, t)
     \/ StoreUnavailable(h)

\* the event loop runs the continuation of handler h once its query settled
Resume(h) == h \in DOMAIN sends /\ (Push(h) \/ Catch(h))

\* the socket layer where the store answers and continuations run
SpecLive ==
  /\ Init
  /\ [][Next]_vars
  /\ \A h \in 1..MaxSends : WF_vars(Answer(h)) /\ WF_vars(Resume(h))

\* the connection lifecycle alone, with the history of superseded logins
NextPresence ==
  \/ \E c \in Conns : Connect(c)
  \/ \E c \in Conns, u \in LoginInputs :
       Login(c, u) /\ LoginHistory(c, u) /\ UNCHANGED storedUserId
  \/ \E c \in Conns : Disconnect(c)

SpecPresence == Init /\ [][NextPresence]_vars

\* the connection lifecycle alone, with each socket's most recent key
NextStored ==
  \/ \E c \in Conns : Connect(c)
  \/ \E c \in Conns, u \in LoginInputs :
       Login(c, u) /\ LoginStores(c, u) /\ UNCHANGED superseded
  \/ \E c \in Conns : Disconnect(c)

SpecStored == Init /\ [][NextStored]_vars

\* the store under concurrent dispatches: a PostgreSQL snapshot with every
\* connection open and connection u logged in as user u
InitOrder ==
  /\ snapshot \in {"pg1", "pg2"}
  /\ conn = [c \in Conns |-> "open"]
  /\ onlineUsers = [u \in Users \cap Conns |-> u]
  /\ sends = << >>
  /\ messages = << >>
  /\ msgSeq = 0
  /\ clock = 0
  /\ emitted = << >>
  /\ friends = {}
  /\ friendSeq = 0
  /\ httpLog = << >>
  /\ superseded = {}
  /\ storedUserId = [c \in Conns |-> IF c \in Users THEN c ELSE Undefined]
  /\ client = None

NextOrder ==
  \/ \E c \in Conns, d \in Payloads : Len(sends) < MaxOrderSends /\ SendMessage(c, d)
  \/ \E h \in DOMAIN sends, t \in 0..MaxClock : StoreInsert(h, t)
  \/ \E h \in DOMAIN sends : StoreUnavailable(h)
  \/ \E h \in DOMAIN sends : Push(h)
  \/ \E h \in DOMAIN sends : Catch(h)

SpecOrder == InitOrder /\ [][NextOrder]_vars

\* the friends routes of a PostgreSQL snapshot, no socket connected
InitFriends ==
  /\ Init
  /\ snapshot \in {"pg1", "pg2"}

NextFriends ==
  \/ \E a, b \in FriendInputs :
       Len(httpLog) < MaxHttp /\ FriendsRequest(a, b) /\ UNCHANGED client
  \/ \E r \in 1..(friendSeq + 1) \cup {Undefined} :
       Len(httpLog) < MaxHttp /\ FriendsAccept(r) /\ UNCHANGED client

SpecFriends == InitFriends /\ [][NextFriends]_vars

\* the friends routes, with the user whose client sent the latest accept
NextAccept ==
  \/ \E a, b \in FriendInputs :
       Len(httpLog) < MaxHttp /\ FriendsRequest(a, b) /\ UNCHANGED client
  \/ \E r \in 1..(friendSeq + 1) \cup {Undefined}, by \in Users :
       Len(httpLog) < MaxHttp /\ FriendsAccept(r) /\ SentBy(by)

SpecAccept == InitFriends /\ [][NextAccept]_vars
====
